---------------------------- MODULE Spec2Model ----------------------------
(***************************************************************************)
(* Model of sphinxcontrib/pecanwsme/rest.py: the rest-controller directive *)
(* that renders a Pecan/WSME controller as sphinxcontrib-httpdomain        *)
(* markup.                                                                 *)
(*                                                                         *)
(* Python strings are sequences of one-character strings, so that          *)
(* rstrip, lstrip, lower, splitlines, slicing and sorted() are computed    *)
(* the way the interpreter computes them.  A line list is a sequence of    *)
(* such strings.  A raised exception is the exc field ("" = none).         *)
(***************************************************************************)
EXTENDS Integers, Sequences, FiniteSets, TLC

(***************************************************************************)
(* Characters and the str methods the module calls.                        *)
(***************************************************************************)
NL == "\n"
\* The characters the model's strings use, in code-point order.  The grave
\* accent (code point 96) is written "grave".
Ascii ==
    <<"\n", " ", "(", ")", ".", "/", ":",
      "A", "B", "C", "D", "E", "F", "G", "H", "I", "J", "K", "L", "M",
      "N", "O", "P", "Q", "R", "S", "T", "U", "V", "W", "X", "Y", "Z",
      "_", "grave",
      "a", "b", "c", "d", "e", "f", "g", "h", "i", "j", "k", "l", "m",
      "n", "o", "p", "q", "r", "s", "t", "u", "v", "w", "x", "y", "z">>

ord(c) == CHOOSE i \in 1..Len(Ascii) : Ascii[i] = c

Whitespace == {" ", "\n"}

IsUpper(c) == ord(c) >= ord("A") /\ ord(c) <= ord("Z")

\* str.lower() on one character, then on a string
lower_char(c) == IF IsUpper(c) THEN Ascii[ord(c) + (ord("a") - ord("A"))] ELSE c

lower(s) == [i \in 1..Len(s) |-> lower_char(s[i])]

RECURSIVE lstrip(_)
lstrip(s) ==
    IF s # <<>> /\ Head(s) \in Whitespace THEN lstrip(Tail(s)) ELSE s

RECURSIVE rstrip(_, _)
rstrip(s, chars) ==
    IF s # <<>> /\ s[Len(s)] \in chars
    THEN rstrip(SubSeq(s, 1, Len(s) - 1), chars)
    ELSE s

strip(s) == rstrip(lstrip(s), Whitespace)

\* s[n:]
slice_from(s, n) == SubSeq(s, n + 1, Len(s))

\* str.splitlines(): a final line break opens no further line
RECURSIVE splitlines_acc(_, _, _)
splitlines_acc(s, cur, acc) ==
    IF s = <<>>
    THEN (IF cur = <<>> THEN acc ELSE Append(acc, cur))
    ELSE IF Head(s) = NL
         THEN splitlines_acc(Tail(s), <<>>, Append(acc, cur))
         ELSE splitlines_acc(Tail(s), Append(cur, Head(s)), acc)

splitlines(s) == splitlines_acc(s, <<>>, <<>>)

\* Python's ordering of two str values (code points, a proper prefix first)
RECURSIVE str_lt(_, _)
str_lt(a, b) ==
    IF b = <<>> THEN FALSE
    ELSE IF a = <<>> THEN TRUE
    ELSE IF Head(a) = Head(b) THEN str_lt(Tail(a), Tail(b))
    ELSE ord(Head(a)) < ord(Head(b))

\* insertion of one key into a sorted list, and sorted(keys)
RECURSIVE insert_sorted(_, _)
insert_sorted(k, ks) ==
    IF ks = <<>> THEN <<k>>
    ELSE IF str_lt(k, Head(ks)) THEN <<k>> \o ks
    ELSE <<Head(ks)>> \o insert_sorted(k, Tail(ks))

RECURSIVE sorted(_)
sorted(ks) ==
    IF ks = <<>> THEN <<>> ELSE insert_sorted(Head(ks), sorted(Tail(ks)))

(***************************************************************************)
(* String literals of rest.py.                                             *)
(***************************************************************************)
s_get == <<"g", "e", "t">>
s_post == <<"p", "o", "s", "t">>
s_put == <<"p", "u", "t">>
s_delete == <<"d", "e", "l", "e", "t", "e">>
s_patch == <<"p", "a", "t", "c", "h">>
s_get_all == <<"g", "e", "t", "_", "a", "l", "l">>
s_get_one == <<"g", "e", "t", "_", "o", "n", "e">>

\* '.. http:'  and  ':: '  of the directive line
s_http == <<".", ".", " ", "h", "t", "t", "p", ":">>
s_coloncolon == <<":", ":", " ">>
\* the 3-space margin
s_margin == <<" ", " ", " ">>
\* ':type '  ': '  ':return type: '
s_type == <<":", "t", "y", "p", "e", " ">>
s_colon_sp == <<":", " ">>
s_return_type == <<":", "r", "e", "t", "u", "r", "n", " ", "t", "y", "p", "e", ":", " ">>
\* 'dict('  'list('  ':class:' and the opening grave accent, the closing one, ')'
s_dict == <<"d", "i", "c", "t", "(">>
s_list == <<"l", "i", "s", "t", "(">>
s_class == <<":", "c", "l", "a", "s", "s", ":", "grave">>
s_tick == <<"grave">>
s_close == <<")">>
s_slash == <<"/">>
s_slash_open == <<"/", "(">>
s_underscore == <<"_">>

(***************************************************************************)
(* datatypename (rest.py 66-80).  A type descriptor is a tuple:            *)
(*   <<"dict", key_type, value_type>>   wsme.types.DictType                *)
(*   <<"array", item_type>>             wsme.types.ArrayType               *)
(*   <<"user", name>>                   wsme.types.UserType instance       *)
(*   <<"object", is_base, has_name, name>>  anything else: is_base says    *)
(*       it is an instance of wsme.types.Base, has_name that it has a      *)
(*       __name__ attribute ("yes"/"no").                                  *)
(* The result is [exc, s].                                                 *)
(***************************************************************************)
\* the exceptions the module can raise, by the expression that raises them
E_name == "AttributeError: datatype.__name__"
E_exposed == "AttributeError: method.exposed"
E_wsme == "AttributeError: get_one._wsme_definition"
E_attr == "AttributeError: getattr(controller, name)"
E_docstring == "IndexError: docstring[-1]"
E_arguments == "IndexError: funcdef.arguments[0]"

Ok(s) == [exc |-> "", s |-> s]
Raise(e) == [exc |-> e, s |-> <<>>]

class_ref(name) == s_class \o name \o s_tick

\* datatype.__name__
dunder_name(datatype) ==
    IF datatype[3] = "yes" THEN Ok(datatype[4]) ELSE Raise(E_name)

\* dict_name with the key and the value exchanged
dict_name_swapped(k, v) ==
    IF k.exc # "" THEN k
    ELSE IF v.exc # "" THEN v
    ELSE Ok(s_dict \o v.s \o s_colon_sp \o k.s \o s_close)

\* the three formats, given the rendered parts
dict_name(k, v) ==
    IF k.exc # "" THEN k
    ELSE IF v.exc # "" THEN v
    ELSE Ok(s_dict \o k.s \o s_colon_sp \o v.s \o s_close)

list_name(i) == IF i.exc # "" THEN i ELSE Ok(s_list \o i.s \o s_close)

class_name(n) == IF n.exc # "" THEN n ELSE Ok(class_ref(n.s))

RECURSIVE datatypename(_)
datatypename(datatype) ==
    IF datatype[1] = "dict"
    THEN dict_name(datatypename(datatype[2]), datatypename(datatype[3]))
    ELSE IF datatype[1] = "array"
    THEN list_name(datatypename(datatype[2]))
    ELSE IF datatype[1] = "user"
    THEN Ok(class_ref(datatype[2]))
    ELSE IF datatype[2] = "yes" \/ datatype[3] = "yes"
    THEN class_name(dunder_name(datatype))
    ELSE dunder_name(datatype)

(***************************************************************************)
(* sphinx.util.docstrings.prepare_docstring, the library routine called    *)
(* at rest.py 92: split into lines, strip the first line's indentation,    *)
(* remove the common indentation of the others, drop leading blank lines   *)
(* and make sure a non-empty result ends with an empty line; an empty     *)
(* list stays empty.  The strings here hold no tabs, so expandtabs() is    *)
(* the identity on them.                                                   *)
(***************************************************************************)
NoMargin == -1

indent_of(line) == Len(line) - Len(lstrip(line))

min_margin(a, b) == IF a = NoMargin THEN b ELSE IF b = NoMargin THEN a ELSE IF a < b THEN a ELSE b

RECURSIVE margin_of(_, _)
margin_of(lines, i) ==
    IF i > Len(lines) THEN NoMargin
    ELSE IF lstrip(lines[i]) # <<>>
         THEN min_margin(indent_of(lines[i]), margin_of(lines, i + 1))
         ELSE margin_of(lines, i + 1)

RECURSIVE drop_leading_blank(_)
drop_leading_blank(lines) ==
    IF lines # <<>> /\ Head(lines) = <<>> THEN drop_leading_blank(Tail(lines)) ELSE lines

\* lines[0] stripped, the margin cut off the others
dedent(lines, margin) ==
    [i \in 1..Len(lines) |->
        IF i = 1 THEN lstrip(lines[i])
        ELSE IF margin # NoMargin THEN slice_from(lines[i], margin)
        ELSE lines[i]]

dedent_lines(lines) == dedent(lines, margin_of(lines, 2))

end_with_blank(lines) ==
    IF lines # <<>> /\ lines[Len(lines)] # <<>> THEN Append(lines, <<>>) ELSE lines

prepare_docstring(s) ==
    end_with_blank(drop_leading_blank(dedent_lines(splitlines(s))))

(***************************************************************************)
(* http_directive (rest.py 48-63): the lines the generator yields.         *)
(* content is always a list here, so the basestring branch is not taken.   *)
(***************************************************************************)
directive_line(method, path) == s_http \o strip(lower(method)) \o s_coloncolon \o path

indent(line) == s_margin \o line

http_directive(method, path, content) ==
    <<<<>>, directive_line(method, path), <<>>>>
        \o [i \in 1..Len(content) |-> indent(content[i])]
        \o <<<<>>>>


(***************************************************************************)
(* A method object is the record                                           *)
(*   exposed      "absent", "true" or "false": the exposed attribute       *)
(*   doc_none     __doc__ is None                                          *)
(*   doc          __doc__ otherwise                                        *)
(*   has_wsme     the method has a _wsme_definition                        *)
(*   arguments    funcdef.arguments, a list of <<name, datatype>>          *)
(*   has_return   funcdef.return_type is set (truthy)                      *)
(*   return_type  funcdef.return_type                                      *)
(*                                                                         *)
(* make_rst_for_method (rest.py 91-119).  The result is [exc, s] with s    *)
(* the lines of the block.                                                 *)
(***************************************************************************)
doc_or_empty(method) == IF method.doc_none THEN <<>> ELSE method.doc

\* line 103: the line of one argument, before those of the later ones
type_line(name, t, rest) ==
    IF t.exc # "" THEN t
    ELSE IF rest.exc # "" THEN rest
    ELSE Ok(<<s_type \o name \o s_colon_sp \o t.s>> \o rest.s)

\* the loop of lines 102-104
RECURSIVE type_lines(_)
type_lines(arguments) ==
    IF arguments = <<>> THEN Ok(<<>>)
    ELSE type_line(Head(arguments)[1], datatypename(Head(arguments)[2]),
                   type_lines(Tail(arguments)))

\* line 113
return_line(t) == IF t.exc # "" THEN t ELSE Ok(<<s_return_type \o t.s>>)

\* lines 111-113
return_lines(method) ==
    IF method.has_return THEN return_line(datatypename(method.return_type)) ELSE Ok(<<>>)

\* add_types without the blank line between the arguments and the return type
add_types_one_spacer(docstring, blank_line, args, ret) ==
    IF args.exc # "" THEN args
    ELSE IF ret.exc # "" THEN ret
    ELSE Ok(docstring \o args.s \o ret.s \o <<blank_line>>)

\* lines 102-116, given the type lines
add_types(docstring, blank_line, args, ret) ==
    IF args.exc # "" THEN args
    ELSE IF ret.exc # "" THEN ret
    ELSE Ok(docstring \o args.s \o <<blank_line>> \o ret.s \o <<blank_line>>)

\* lines 97-116: the docstring list after the type information is added
with_types(method, docstring, blank_line) ==
    IF method.has_wsme
    THEN add_types(docstring, blank_line, type_lines(method.arguments), return_lines(method))
    ELSE Ok(docstring)

\* lines 93-94: [exc, s, blank_line]
split_last(docstring) ==
    IF docstring = <<>>
    THEN [exc |-> E_docstring, s |-> <<>>, blank_line |-> <<>>]
    ELSE [exc |-> "", s |-> SubSeq(docstring, 1, Len(docstring) - 1),
          blank_line |-> docstring[Len(docstring)]]

\* lines 92-94
split_docstring(method) ==
    split_last(prepare_docstring(rstrip(doc_or_empty(method), {NL})))

\* line 118
directive(path, http_method, content) ==
    IF content.exc # "" THEN content ELSE Ok(http_directive(http_method, path, content.s))

\* lines 97-119, given the split docstring
render(path, method, http_method, d) ==
    IF d.exc # "" THEN Raise(d.exc)
    ELSE directive(path, http_method, with_types(method, d.s, d.blank_line))

make_rst_for_method(path, method, http_method) ==
    render(path, method, http_method, split_docstring(method))

(***************************************************************************)
(* A controller is the record                                              *)
(*   init_inspectable  inspect.getargspec(controller.__init__) returns     *)
(*                     (FALSE: it raises TypeError, the slot wrapper)      *)
(*   init_args         argspec[0], self included                           *)
(*   attrs             attribute name -> method object                     *)
(*   custom_actions    _custom_actions, a list of <<name, verbs>> in the   *)
(*                     dict's iteration order, the names distinct          *)
(*                                                                         *)
(* make_rst_for_controller (rest.py 121-216), block by block.  The         *)
(* accumulator acc is [exc, lines, calls]: lines is the local list, calls  *)
(* records the make_rst_for_method calls that returned, as                 *)
(* [path, attr, http_method].                                              *)
(***************************************************************************)
hasattr(controller, name) == name \in DOMAIN controller.attrs

\* controller_path_of counting self as the extra argument
controller_path_of_self(path_prefix, controller) ==
    IF controller.init_inspectable /\ Len(controller.init_args) > 0
    THEN rstrip(path_prefix, {"/"}) \o s_slash_open \o controller.init_args[1] \o s_close
    ELSE rstrip(path_prefix, {"/"})

\* lines 125-143
controller_path_of(path_prefix, controller) ==
    LET stripped == rstrip(path_prefix, {"/"})
    IN  IF controller.init_inspectable /\ Len(controller.init_args) > 1
        THEN stripped \o s_slash_open \o controller.init_args[2] \o s_close
        ELSE stripped

\* lines.extend(block) for the block make_rst_for_method returned for attr
extend(acc, block, path, attr, http_method) ==
    IF block.exc # "" THEN [acc EXCEPT !.exc = block.exc]
    ELSE [acc EXCEPT !.lines = @ \o block.s,
                     !.calls = Append(@, [path |-> path, attr |-> attr,
                                          http_method |-> http_method])]

\* lines.extend(self.make_rst_for_method(path, method, http_method))
emit(acc, controller, path, attr, http_method) ==
    extend(acc, make_rst_for_method(path, controller.attrs[attr], http_method),
           path, attr, http_method)

\* method.exposed
exposed_of(method) ==
    IF method.exposed = "absent" THEN Raise(E_exposed)
    ELSE [exc |-> "", s |-> <<>>, truth |-> method.exposed = "true"]

\* lines 152-160: the test of the marker and the call
if_exposed(acc, e, controller, path, attr, http_method) ==
    IF e.exc # "" THEN [acc EXCEPT !.exc = e.exc]
    ELSE IF e.truth THEN emit(acc, controller, path, attr, http_method)
    ELSE acc

\* one turn of the loops of lines 147-160 and 177-192
conventional_step(acc, controller, path, method_name, http_method_name) ==
    IF ~hasattr(controller, method_name) THEN acc
    ELSE if_exposed(acc, exposed_of(controller.attrs[method_name]),
                    controller, path, method_name, http_method_name)

RECURSIVE conventional_loop(_, _, _, _)
conventional_loop(acc, controller, path, pairs) ==
    IF pairs = <<>> \/ acc.exc # "" THEN acc
    ELSE conventional_loop(
            conventional_step(acc, controller, path, Head(pairs)[1], Head(pairs)[2]),
            controller, path, Tail(pairs))

\* the lists of lines 147-149 and 177-181
read_methods == << <<s_get_all, s_get>>, <<s_get, s_get>> >>
write_methods ==
    << <<s_post, s_post>>, <<s_put, s_put>>, <<s_delete, s_delete>>, <<s_patch, s_patch>> >>

\* lines 166-175
get_one_call(acc, controller, path, m) ==
    IF ~m.has_wsme THEN [acc EXCEPT !.exc = E_wsme]
    ELSE IF m.arguments = <<>> THEN [acc EXCEPT !.exc = E_arguments]
    ELSE emit(acc, controller, path \o s_slash_open \o m.arguments[1][1] \o s_close,
              s_get_one, s_get)

\* line 164, given controller.get_one.exposed
if_get_one(acc, e, controller, path) ==
    IF e.exc # "" THEN [acc EXCEPT !.exc = e.exc]
    ELSE IF e.truth THEN get_one_call(acc, controller, path, controller.attrs[s_get_one])
    ELSE acc

\* lines 164-175
get_one_block(acc, controller, path) ==
    IF ~hasattr(controller, s_get_one) THEN acc
    ELSE if_get_one(acc, exposed_of(controller.attrs[s_get_one]), controller, path)

\* controller._custom_actions.keys() and controller._custom_actions[name]
keys(custom_actions) == [i \in 1..Len(custom_actions) |-> custom_actions[i][1]]

actions_of(custom_actions, name) ==
    custom_actions[CHOOSE i \in 1..Len(custom_actions) : custom_actions[i][1] = name][2]

\* action_order without sorted(): the dict's own order
action_order_unsorted(custom_actions) == keys(custom_actions)

\* line 195: the order the action names are visited in
action_order(custom_actions) == sorted(keys(custom_actions))

\* lines 202-206: the attribute the action's method is read from
custom_method_name(controller, name, action) ==
    LET method_name == lower(action) \o s_underscore \o name
    IN  IF hasattr(controller, method_name) THEN method_name ELSE name

\* lines 203-214, given the attribute lines 202-203 pick
custom_call(acc, controller, path, attr, action) ==
    IF ~hasattr(controller, attr) THEN [acc EXCEPT !.exc = E_attr]
    ELSE emit(acc, controller, path, attr, lower(action))

\* lines 199-214
RECURSIVE actions_loop(_, _, _, _, _)
actions_loop(acc, controller, path, name, actions) ==
    IF actions = <<>> \/ acc.exc # "" THEN acc
    ELSE actions_loop(
            custom_call(acc, controller, path,
                        custom_method_name(controller, name, Head(actions)), Head(actions)),
            controller, path, name, Tail(actions))

\* lines 195-214
RECURSIVE custom_loop(_, _, _, _)
custom_loop(acc, controller, controller_path, names) ==
    IF names = <<>> \/ acc.exc # "" THEN acc
    ELSE custom_loop(
            actions_loop(acc, controller, controller_path \o s_slash \o Head(names),
                         Head(names), actions_of(controller.custom_actions, Head(names))),
            controller, controller_path, Tail(names))

(***************************************************************************)
(* The directive's inputs: the controller the argument names and the       *)
(* webprefix option.  The names, docstrings and types below are the        *)
(* values the inputs are built from.                                       *)
(***************************************************************************)
MaxRuns == 2        \* times the directive is run on the same input
MaxDefined == 2     \* conventional methods one routing controller defines
MaxActions == 2     \* entries of one _custom_actions registry
MaxVerbs == 2       \* verbs of one custom action
MaxArgs == 2        \* declared arguments of one method
MaxDepth == 2       \* nesting depth of a type descriptor

n_self == <<"s", "e", "l", "f">>
n_group_id == <<"g", "r", "o", "u", "p", "_", "i", "d">>
n_other == <<"o", "t", "h", "e", "r">>
n_id == <<"i", "d">>
n_q == <<"q">>
n_foo == <<"f", "o", "o">>
n_fo == <<"f", "o">>
n_bar == <<"b", "a", "r">>
v_GET == <<"G", "E", "T">>
v_POST == <<"P", "O", "S", "T">>

ConventionalNames == {s_get_all, s_get, s_get_one, s_post, s_put, s_delete, s_patch}
ActionNames == {n_foo, n_fo, n_bar}
Verbs == {v_GET, v_POST}

\* docstrings: one line; several lines, indented, the closing quotes on a
\* line of their own; text starting on the second line; empty; a line break
d_one == <<"G", "e", "t", ".">>
d_multi == <<"G", ".", "\n", "\n", " ", " ", "m", "\n", " ", " ", " ", "x", "\n", " ", " ">>
d_second == <<"\n", " ", " ", "a", ".", "\n">>
d_empty == <<>>
d_break == <<"\n">>
Docstrings == {d_one, d_multi, d_second, d_empty, d_break}

\* types
t_int == <<"object", "no", "yes", <<"i", "n", "t">>>>
t_UserRecord == <<"user", <<"U", "s", "e", "r", "R", "e", "c", "o", "r", "d">>>>
t_Rec == <<"object", "yes", "yes", <<"R", "e", "c">>>>
t_instance == <<"object", "yes", "no", <<>>>>
t_nameless == <<"object", "no", "no", <<>>>>
LeafTypes == {t_int, t_UserRecord, t_Rec, t_instance, t_nameless}

RECURSIVE TypesOfDepth(_)
TypesOfDepth(d) ==
    IF d = 0 THEN LeafTypes
    ELSE LET sub == TypesOfDepth(d - 1)
         IN  LeafTypes \cup {<<"array", i>> : i \in sub}
                       \cup {<<"dict", k, v>> : k \in sub, v \in LeafTypes}

Types == TypesOfDepth(MaxDepth)

\* the example of the type-rendering rule: dict(list(int), UserRecord)
t_example == <<"dict", <<"array", t_int>>, t_UserRecord>>

Method(exposed, doc_none, doc, has_wsme, arguments, has_return, return_type) ==
    [exposed |-> exposed, doc_none |-> doc_none, doc |-> doc, has_wsme |-> has_wsme,
     arguments |-> arguments, has_return |-> has_return, return_type |-> return_type]

Controller(init_inspectable, init_args, attrs, custom_actions) ==
    [init_inspectable |-> init_inspectable, init_args |-> init_args,
     attrs |-> attrs, custom_actions |-> custom_actions]

\* the options of the directive: webprefix given or not
Option(given, webprefix) == [given |-> given, webprefix |-> webprefix]
NoOption == Option(FALSE, <<>>)
p_v == <<"/", "v">>
p_v_slash == <<"/", "v", "/">>
Options == {NoOption, Option(TRUE, p_v), Option(TRUE, p_v_slash)}

\* constructors: object.__init__ (not inspectable), (self), (self, group_id),
\* (self, group_id, other)
Ctor(init_inspectable, init_args) == [inspectable |-> init_inspectable, args |-> init_args]
c_object == Ctor(FALSE, <<>>)
c_self == Ctor(TRUE, <<n_self>>)
c_one == Ctor(TRUE, <<n_self, n_group_id>>)
c_two == Ctor(TRUE, <<n_self, n_group_id, n_other>>)

Input(ctor, attrs, custom_actions, option) ==
    [controller |-> Controller(ctor.inspectable, ctor.args, attrs, custom_actions),
     option |-> option]

\* sequences over S of length lo..hi, and those without repetition
SeqsOf(S, lo, hi) == UNION {[1..n -> S] : n \in lo..hi}
Injective(s) == \A i, j \in 1..Len(s) : i # j => s[i] # s[j]

(***************************************************************************)
(* Routing inputs: up to MaxDefined conventional methods, each one of      *)
(*   nomarker  defined, no exposed attribute                               *)
(*   hidden    exposed = False                                             *)
(*   typed     exposed, documented, with a _wsme_definition                *)
(*   nodoc     exposed, with a _wsme_definition and no docstring           *)
(***************************************************************************)
m_nomarker == Method("absent", FALSE, d_one, FALSE, <<>>, FALSE, t_int)
m_hidden == Method("false", FALSE, d_one, FALSE, <<>>, FALSE, t_int)
m_typed == Method("true", FALSE, d_multi, TRUE, << <<n_id, t_int>> >>, TRUE, t_UserRecord)
m_nodoc == Method("true", TRUE, <<>>, TRUE, << <<n_id, t_int>> >>, FALSE, t_int)
RoutingMethods == {m_nomarker, m_hidden, m_typed, m_nodoc}

RoutingAttrs ==
    UNION {[S -> RoutingMethods] :
             S \in {T \in SUBSET ConventionalNames : Cardinality(T) <= MaxDefined}}

RoutingInputs ==
    {Input(c, a, <<>>, o) : c \in {c_object, c_self, c_one}, a \in RoutingAttrs, o \in Options}

(***************************************************************************)
(* Custom-action inputs: a registry of up to MaxActions actions, all with  *)
(* the same list of up to MaxVerbs verbs; for every action the controller  *)
(* has the attributes named by forms, a subset of {"", "get_", "post_"}    *)
(* ("" is the bare action name).  A custom method carries no exposed       *)
(* attribute; its docstring is its own attribute name if documented, and   *)
(* it has none otherwise.  with_post adds an exposed post method.          *)
(***************************************************************************)
Registries ==
    {r \in SeqsOf(ActionNames, 0, MaxActions) : Injective(r)}

VerbLists == SeqsOf(Verbs, 1, MaxVerbs)

Forms == {<<>>, s_get \o s_underscore, s_post \o s_underscore}

m_custom(attr, documented) ==
    Method("absent", ~documented, IF documented THEN attr ELSE <<>>, FALSE, <<>>, FALSE, t_int)

CustomAttrs(registry, forms, with_post, documented) ==
    LET names == {f \o registry[i] : f \in forms, i \in 1..Len(registry)}
                    \cup (IF with_post THEN {s_post} ELSE {})
    IN  [n \in names |-> IF n = s_post THEN m_typed ELSE m_custom(n, documented)]

CustomInputs ==
    {Input(c_one, CustomAttrs(r, f, w, d), [i \in 1..Len(r) |-> <<r[i], vl>>],
           Option(TRUE, p_v_slash)) :
        r \in Registries, vl \in VerbLists, f \in SUBSET Forms, w \in BOOLEAN, d \in BOOLEAN}

(***************************************************************************)
(* Rendering inputs: one exposed method, put or get_one, its docstring     *)
(* and metadata varied.                                                    *)
(***************************************************************************)
ArgPool == {<<n_id, t_int>>, <<n_q, <<"array", t_UserRecord>>>>, <<n_other, t_nameless>>}
ArgLists == SeqsOf(ArgPool, 0, MaxArgs)
ReturnTypes == {t_int, t_nameless}

RenderMethods ==
    {Method("true", FALSE, d, FALSE, <<>>, FALSE, t_int) : d \in Docstrings}
    \cup {Method("true", TRUE, <<>>, FALSE, <<>>, FALSE, t_int)}
    \cup {Method("true", FALSE, d, TRUE, a, TRUE, r) :
            d \in Docstrings, a \in ArgLists, r \in ReturnTypes}
    \cup {Method("true", FALSE, d, TRUE, a, FALSE, t_int) :
            d \in Docstrings, a \in ArgLists}

RenderInputs ==
    {Input(c_two, [n \in {slot} |-> m], <<>>, NoOption) :
        slot \in {s_put, s_get_one}, m \in RenderMethods}

(***************************************************************************)
(* Type inputs: an exposed post method with one argument of each type.     *)
(***************************************************************************)
TypeInputs ==
    {Input(c_self, [n \in {s_post} |-> Method("true", FALSE, d_one, TRUE, << <<n_q, ty>> >>, FALSE, t_int)],
           <<>>, NoOption) : ty \in Types}

Inputs == RoutingInputs \cup CustomInputs \cup RenderInputs \cup TypeInputs

(***************************************************************************)
(* The directive as a state machine.  One run of the directive goes        *)
(* through run() and the blocks of make_rst_for_controller in order; an    *)
(* exception leaves the run at once.                                       *)
(***************************************************************************)
VARIABLES
    controller,       \* the object import_object returns
    option,           \* self.options
    pc,               \* where the run is
    run_no,           \* runs started
    controller_path,  \* make_rst_for_controller's local
    lines,            \* make_rst_for_controller's local list
    calls,            \* the make_rst_for_method calls that returned
    exc,              \* the exception raised, "" if none
    results           \* the outcome of every finished run

vars == <<controller, option, pc, run_no, controller_path, lines, calls, exc, results>>

\* the locals a block starts from
locals == [exc |-> exc, lines |-> lines, calls |-> calls]

\* the step after a block: the next block, or out with the exception
Continue(next, to) ==
    /\ exc' = next.exc
    /\ lines' = next.lines
    /\ calls' = next.calls
    /\ pc' = IF next.exc # "" THEN "raised" ELSE to

\* self.options.get('webprefix', '/')
webprefix == IF option.given THEN option.webprefix ELSE s_slash

Init ==
    /\ \E i \in Inputs : controller = i.controller /\ option = i.option
    /\ pc = "idle"
    /\ run_no = 0
    /\ controller_path = <<>>
    /\ lines = <<>>
    /\ calls = <<>>
    /\ exc = ""
    /\ results = <<>>

\* run(), lines 219-229: up to the call of make_rst_for_controller
Run ==
    /\ pc = "idle"
    /\ run_no < MaxRuns
    /\ run_no' = run_no + 1
    /\ pc' = "controller_path"
    /\ exc' = ""
    /\ UNCHANGED <<controller, option, controller_path, lines, calls, results>>

\* ControllerPath with the list kept from the run before
ControllerPath_keep_lines ==
    /\ pc = "controller_path"
    /\ controller_path' = controller_path_of(webprefix, controller)
    /\ pc' = "read_methods"
    /\ UNCHANGED <<controller, option, run_no, exc, results, lines, calls>>

\* lines 125-145
ControllerPath ==
    /\ pc = "controller_path"
    /\ controller_path' = controller_path_of(webprefix, controller)
    /\ lines' = <<>>
    /\ calls' = <<>>
    /\ pc' = "read_methods"
    /\ UNCHANGED <<controller, option, run_no, exc, results>>

\* lines 147-160
ReadMethods ==
    /\ pc = "read_methods"
    /\ Continue(conventional_loop(locals, controller, controller_path, read_methods), "get_one")
    /\ UNCHANGED <<controller, option, run_no, controller_path, results>>

\* lines 162-175
GetOne ==
    /\ pc = "get_one"
    /\ Continue(get_one_block(locals, controller, controller_path), "write_methods")
    /\ UNCHANGED <<controller, option, run_no, controller_path, results>>

\* lines 177-192
WriteMethods ==
    /\ pc = "write_methods"
    /\ Continue(conventional_loop(locals, controller, controller_path, write_methods), "custom")
    /\ UNCHANGED <<controller, option, run_no, controller_path, results>>

\* lines 194-214
CustomActions ==
    /\ pc = "custom"
    /\ Continue(custom_loop(locals, controller, controller_path,
                            action_order(controller.custom_actions)), "return")
    /\ UNCHANGED <<controller, option, run_no, controller_path, results>>

\* line 216 and run(), lines 227-238: the lines go to the host's parser
Return ==
    /\ pc = "return"
    /\ results' = Append(results, [exc |-> "", lines |-> lines])
    /\ pc' = "idle"
    /\ UNCHANGED <<controller, option, run_no, controller_path, lines, calls, exc>>

\* an exception leaves make_rst_for_controller and run(): nothing is returned
Propagate ==
    /\ pc = "raised"
    /\ results' = Append(results, [exc |-> exc, lines |-> <<>>])
    /\ pc' = "idle"
    /\ UNCHANGED <<controller, option, run_no, controller_path, lines, calls, exc>>

Next ==
    \/ Run
    \/ ControllerPath
    \/ ReadMethods
    \/ GetOne
    \/ WriteMethods
    \/ CustomActions
    \/ Return
    \/ Propagate

Spec == Init /\ [][Next]_vars


(***************************************************************************)
(* Vocabulary of the properties.                                           *)
(***************************************************************************)
\* a run of the directive has ended; it has ended by returning its lines
Finished == pc = "idle" /\ run_no > 0
Returned == Finished /\ exc = ""

\* the endpoint descriptors make_rst_for_controller hands back: those of the
\* calls it made if it returned, none if it raised
emitted == IF exc = "" THEN calls ELSE <<>>

\* the errors section 7 of the specification documents: an attribute or an
\* argument that one branch assumes is missing from the inspected object
DocumentedErrors == {E_name, E_wsme, E_arguments, E_attr}

defines(name) == hasattr(controller, name)
is_exposed(name) == defines(name) /\ controller.attrs[name].exposed = "true"

indices_of(seq, attr) == {i \in 1..Len(seq) : seq[i].attr = attr}

ends_with(s, suffix) ==
    Len(s) >= Len(suffix) /\ SubSeq(s, Len(s) - Len(suffix) + 1, Len(s)) = suffix

starts_with(s, prefix) == Len(s) >= Len(prefix) /\ SubSeq(s, 1, Len(prefix)) = prefix

has_extra_arg == controller.init_inspectable /\ Len(controller.init_args) >= 2

placeholder(name) == <<"(">> \o name \o <<")">>

\* the web prefix without its trailing slashes, then "/(A)" for a constructor
\* with a second argument A
expected_base_path ==
    rstrip(webprefix, {"/"}) \o
        (IF has_extra_arg THEN <<"/">> \o placeholder(controller.init_args[2]) ELSE <<>>)

\* the conventional names and their verbs, in the documented order
Conventional ==
    << <<s_get_all, s_get>>, <<s_get, s_get>>, <<s_get_one, s_get>>, <<s_post, s_post>>,
       <<s_put, s_put>>, <<s_delete, s_delete>>, <<s_patch, s_patch>> >>

rank(attr) == CHOOSE i \in 1..Len(Conventional) : Conventional[i][1] = attr

is_conventional(call) == call.attr \in ConventionalNames

\* the action a custom call's path names
action_of(call) == slice_from(call.path, Len(controller_path) + 1)

verbs_of(name) ==
    controller.custom_actions[
        CHOOSE i \in 1..Len(controller.custom_actions) : controller.custom_actions[i][1] = name][2]

registered == {controller.custom_actions[i][1] : i \in 1..Len(controller.custom_actions)}

(***************************************************************************)
(* C1.  For each of get_all, get, post, put, delete, patch: exactly one    *)
(* descriptor with the mapped verb at the controller's base path is        *)
(* emitted if the controller defines the method and it is exposed, and     *)
(* none otherwise.  Stated for the runs that do not stop on a documented   *)
(* error.                                                                  *)
(***************************************************************************)
C1_Claim ==
    (Finished /\ exc \notin DocumentedErrors) =>
        \A k \in 1..Len(Conventional) :
            LET name == Conventional[k][1]
                found == indices_of(emitted, name)
            IN  name # s_get_one =>
                    IF is_exposed(name)
                    THEN /\ Cardinality(found) = 1
                         /\ \A i \in found :
                              /\ emitted[i].http_method = Conventional[k][2]
                              /\ emitted[i].path = controller_path
                    ELSE found = {}

(***************************************************************************)
(* C2.  A conventional method that is defined but not exposed (marker      *)
(* absent, or false) is skipped silently: no error comes of it and no      *)
(* descriptor is emitted for it.                                           *)
(***************************************************************************)
C2_Claim ==
    Finished =>
        \A name \in ConventionalNames :
            (defines(name) /\ ~is_exposed(name)) =>
                /\ exc # E_exposed
                /\ indices_of(calls, name) = {}

(***************************************************************************)
(* C3.  As claimed: with a constructor (self, A, ...), the path of every   *)
(* conventional endpoint, get_one included, ends with "(A)".               *)
(***************************************************************************)
C3_Claim ==
    \A i \in 1..Len(calls) :
        (is_conventional(calls[i]) /\ has_extra_arg) =>
            ends_with(calls[i].path, placeholder(controller.init_args[2]))

(***************************************************************************)
(* C3, amended.  The path of every get_all, get, post, put, delete and     *)
(* patch endpoint is the web prefix without trailing slashes followed by   *)
(* "/(A)" when the constructor is (self, A, ...), and by nothing when it   *)
(* takes no further argument or cannot be inspected; the path of get_one   *)
(* is that path followed by "/(N)", N its first declared argument.         *)
(***************************************************************************)
C3_Theorem ==
    \A i \in 1..Len(calls) :
        is_conventional(calls[i]) =>
            calls[i].path =
                expected_base_path \o
                    (IF calls[i].attr = s_get_one
                     THEN <<"/">> \o placeholder(controller.attrs[s_get_one].arguments[1][1])
                     ELSE <<>>)

C3_Witness ==
    /\ Returned
    /\ controller.init_args = <<n_self, n_group_id>>
    /\ indices_of(calls, s_get_one) # {}
    /\ indices_of(calls, s_put) # {}

(***************************************************************************)
(* C4.  An exposed get_one with declared arguments yields exactly one GET  *)
(* descriptor, at the base path followed by "/(N)", N the name of its      *)
(* first declared argument.  Stated for the runs that do not stop on a     *)
(* documented error.                                                       *)
(***************************************************************************)
C4_Claim ==
    (/\ Finished
     /\ exc \notin DocumentedErrors
     /\ is_exposed(s_get_one)
     /\ controller.attrs[s_get_one].has_wsme
     /\ controller.attrs[s_get_one].arguments # <<>>) =>
        LET found == indices_of(emitted, s_get_one)
        IN  /\ Cardinality(found) = 1
            /\ \A i \in found :
                 /\ emitted[i].http_method = s_get
                 /\ emitted[i].path =
                        expected_base_path \o <<"/">> \o
                            placeholder(controller.attrs[s_get_one].arguments[1][1])

(***************************************************************************)
(* C5.  The descriptors are ordered: the conventional ones in the order    *)
(* get_all, get, get_one, post, put, delete, patch and before every        *)
(* custom one; the custom ones by ascending action name, whatever the      *)
(* registry's order; those of one action in the order of its verb list.    *)
(***************************************************************************)
C5_Theorem ==
    /\ \A i, j \in 1..Len(calls) :
         i < j =>
            IF is_conventional(calls[j])
            THEN is_conventional(calls[i]) /\ rank(calls[i].attr) < rank(calls[j].attr)
            ELSE \/ is_conventional(calls[i])
                 \/ action_of(calls[i]) = action_of(calls[j])
                 \/ str_lt(action_of(calls[i]), action_of(calls[j]))
    /\ \A name \in registered :
         LET of_action == SelectSeq(calls, LAMBDA c : ~is_conventional(c) /\ action_of(c) = name)
             verbs == verbs_of(name)
         IN  /\ Len(of_action) <= Len(verbs)
             /\ \A k \in 1..Len(of_action) : of_action[k].http_method = lower(verbs[k])
             /\ Returned => Len(of_action) = Len(verbs)

C5_Witness ==
    /\ Returned
    /\ Len(controller.custom_actions) = 2
    /\ str_lt(controller.custom_actions[2][1], controller.custom_actions[1][1])
    /\ Len(controller.custom_actions[1][2]) = 2
    /\ controller.custom_actions[1][2][1] # controller.custom_actions[1][2][2]
    /\ indices_of(calls, s_post) # {}
    /\ Len(calls) = 5

(***************************************************************************)
(* C6.  For every custom action a and every verb v of its list there is    *)
(* one descriptor at base path "/" a with verb lower(v), rendered from the *)
(* method lower(v)_a if the controller has it and from the method a        *)
(* otherwise.  Stated for the runs that do not stop on a documented error. *)
(***************************************************************************)
C6_Claim ==
    (Finished /\ exc \notin DocumentedErrors) =>
        \A name \in registered :
            \A k \in 1..Len(verbs_of(name)) :
                LET verb == lower(verbs_of(name)[k])
                    prefixed == verb \o <<"_">> \o name
                    found == {i \in 1..Len(emitted) :
                                /\ emitted[i].path = expected_base_path \o <<"/">> \o name
                                /\ emitted[i].http_method = verb}
                    times == Cardinality({n \in 1..Len(verbs_of(name)) :
                                            lower(verbs_of(name)[n]) = verb})
                IN  /\ Cardinality(found) = times
                    /\ \A i \in found :
                         emitted[i].attr = IF defines(prefixed) THEN prefixed ELSE name

(***************************************************************************)
(* C7.  Whatever the docstring of the method (several lines, one line,     *)
(* empty or missing), its block is: a blank line, the directive line,      *)
(* a blank line, the content lines each behind three spaces, a blank       *)
(* line.  Stated for a controller whose only method is an exposed put,     *)
(* and for the runs that do not stop on a documented error.                *)
(***************************************************************************)
is_block(block, verb, path) ==
    /\ Len(block) >= 4
    /\ block[1] = <<>>
    /\ block[2] = <<".", ".", " ", "h", "t", "t", "p", ":">> \o verb \o <<":", ":", " ">> \o path
    /\ block[3] = <<>>
    /\ \A i \in 4..(Len(block) - 1) : starts_with(block[i], <<" ", " ", " ">>)
    /\ block[Len(block)] = <<>>

C7_Claim ==
    (/\ Finished
     /\ exc \notin DocumentedErrors
     /\ DOMAIN controller.attrs = {s_put}
     /\ is_exposed(s_put)) =>
        is_block(lines, s_put, expected_base_path)

(***************************************************************************)
(* C8.  datatypename renders a dictionary type as "dict(K: V)", a          *)
(* sequence type as "list(T)", a user type and any other type with a name  *)
(* as a class reference to that name, and raises the attribute error for   *)
(* a type without a name, also when such a type is nested; the type        *)
(* dict(list(int), UserRecord) renders as                                  *)
(* dict(list(:class:[grave]int[grave]): :class:[grave]UserRecord[grave]).  *)
(* Checked on every type a method of the controller declares.              *)
(***************************************************************************)
example_rendering == <<"d", "i", "c", "t", "(", "l", "i", "s", "t", "(", ":", "c", "l", "a", "s", "s", ":", "grave", "i", "n", "t", "grave", ")", ":", " ", ":", "c", "l", "a", "s", "s", ":", "grave", "U", "s", "e", "r", "R", "e", "c", "o", "r", "d", "grave", ")">>

RECURSIVE parts_of(_)
parts_of(ty) ==
    {ty} \cup (IF ty[1] = "dict" THEN parts_of(ty[2]) \cup parts_of(ty[3])
               ELSE IF ty[1] = "array" THEN parts_of(ty[2])
               ELSE {})

types_of(method) ==
    UNION {parts_of(method.arguments[i][2]) : i \in 1..Len(method.arguments)}
        \cup (IF method.has_return THEN parts_of(method.return_type) ELSE {})

declared_types == UNION {types_of(controller.attrs[n]) : n \in DOMAIN controller.attrs}

rendering_rule(ty) ==
    LET r == datatypename(ty)
    IN  IF ty[1] = "dict" THEN
            LET k == datatypename(ty[2])
                v == datatypename(ty[3])
            IN  IF k.exc = "" /\ v.exc = ""
                THEN r.exc = "" /\ r.s = <<"d", "i", "c", "t", "(">> \o k.s \o <<":", " ">> \o v.s \o <<")">>
                ELSE r.exc = E_name
        ELSE IF ty[1] = "array" THEN
            LET i == datatypename(ty[2])
            IN  IF i.exc = ""
                THEN r.exc = "" /\ r.s = <<"l", "i", "s", "t", "(">> \o i.s \o <<")">>
                ELSE r.exc = E_name
        ELSE IF ty[1] = "user" THEN
            r.exc = "" /\ r.s = <<":", "c", "l", "a", "s", "s", ":", "grave">> \o ty[2] \o <<"grave">>
        ELSE IF ty[3] = "yes" THEN
            r.exc = "" /\ r.s = <<":", "c", "l", "a", "s", "s", ":", "grave">> \o ty[4] \o <<"grave">>
        ELSE r.exc = E_name

C8_Theorem ==
    /\ \A ty \in declared_types : rendering_rule(ty)
    /\ (defines(s_post) /\ controller.attrs[s_post].arguments = << <<n_q, t_example>> >>) =>
         /\ datatypename(t_example) = Ok(example_rendering)
         /\ Returned => lines[5] = <<" ", " ", " ", ":", "t", "y", "p", "e", " ", "q", ":", " ">>
                                        \o example_rendering

C8_Witness ==
    /\ Returned
    /\ defines(s_post)
    /\ controller.attrs[s_post].arguments = << <<n_q, t_example>> >>
    /\ Len(lines) = 8

expected_content(method) ==
    LET normalized == prepare_docstring(rstrip(IF method.doc_none THEN <<>> ELSE method.doc, {"\n"}))
        text == SubSeq(normalized, 1, Len(normalized) - 1)
        types == [i \in 1..Len(method.arguments) |->
                    <<":", "t", "y", "p", "e", " ">> \o method.arguments[i][1] \o <<":", " ">>
                        \o datatypename(method.arguments[i][2]).s]
        return == IF method.has_return
                  THEN << <<":", "r", "e", "t", "u", "r", "n", " ", "t", "y", "p", "e", ":", " ">>
                            \o datatypename(method.return_type).s >>
                  ELSE <<>>
    IN  IF method.has_wsme THEN text \o types \o << <<>> >> \o return \o << <<>> >> ELSE text

\* the lines of a block between its third line and its last
content_of(block) == [i \in 1..(Len(block) - 4) |-> slice_from(block[i + 3], 3)]

\* where the block of the k-th call begins in the output
RECURSIVE block_start(_)
block_start(k) ==
    IF k = 1 THEN 1
    ELSE block_start(k - 1) + 4 + Len(expected_content(controller.attrs[calls[k - 1].attr]))

C10_Theorem ==
    \A k \in 1..Len(calls) :
        LET expected == expected_content(controller.attrs[calls[k].attr])
            first == block_start(k)
            last == first + 3 + Len(expected)
        IN  /\ Len(lines) >= last
            /\ is_block(SubSeq(lines, first, last), calls[k].http_method, calls[k].path)
            /\ content_of(SubSeq(lines, first, last)) = expected
            /\ k = Len(calls) => Len(lines) = last

C10_Witness ==
    /\ Returned
    /\ defines(s_put)
    /\ controller.attrs[s_put].doc = d_multi
    /\ Len(controller.attrs[s_put].arguments) = 2
    /\ controller.attrs[s_put].arguments[1] # controller.attrs[s_put].arguments[2]
    /\ controller.attrs[s_put].has_return
    /\ Len(lines) = 13

=============================================================================
